---- MODULE Spec2Model ----
(***************************************************************************)
(* Model of uniqueRefreshPaths (modules/renter/refreshpaths.go): the two   *)
(* maps childDirs and parentDirs guarded by the mutex mu, and the five     *)
(* operations callAdd, callNumChildDirs, callNumParentDirs, callRefreshAll *)
(* and callRefreshAllBlocking, each executed by any of several threads.    *)
(*                                                                         *)
(* A TurtleDexPath is modelled as the sequence of its path elements; the   *)
(* root is the empty sequence.  Errors are modelled as sets of error       *)
(* records; the nil error is the empty set.                                *)
(***************************************************************************)
EXTENDS Naturals, Sequences, FiniteSets, Bags, TLC

\* ---------------------------------------------------------------- bounds
MaxDepth == 2
NumThreads == 2
MaxAdds == 3

\* ------------------------------------------------------------ path type
Names == {"a", "b"}

RECURSIVE PathsOfLen(_)
PathsOfLen(n) ==
  IF n = 0 THEN {<<>>}
  ELSE {Append(p, e) : p \in PathsOfLen(n - 1), e \in Names}

Paths == UNION {PathsOfLen(n) : n \in 0..MaxDepth}

Root == <<>>

IsRoot(p) == p = Root

\* The paths whose parent cannot be resolved (a corrupt path).
CorruptPaths == {<<"b">>}

\* Parent resolution: the path without its last element, or an error.
Dir(p) ==
  IF IsRoot(p) \/ p \in CorruptPaths
  THEN [parentDir |-> Root, err |-> TRUE]
  ELSE [parentDir |-> SubSeq(p, 1, Len(p) - 1), err |-> FALSE]

\* ------------------------------------------------------------ errors
Nil == {}

\* errors.AddContext(err, "unable to get parent directory of <path>")
AddContext(path) == {[kind |-> "dir", path |-> path]}

\* The error of a failed managedBubbleMetadata(sp).
BubbleErr(sp) == {[kind |-> "bubble", path |-> sp]}

\* A plausible slip: err = <the result> in place of err = errors.Compose(...).
Compose_Overwrite(err, e) == e

\* errors.Compose(err, e): nil when both are nil, else every non-nil error.
Compose(err, e) == err \cup e

\* ------------------------------------------------------------ order on paths
IsProperAncestor(a, p) ==
  /\ Len(a) < Len(p)
  /\ SubSeq(p, 1, Len(a)) = a

ProperAncestors(p) == {SubSeq(p, 1, n) : n \in 0..(Len(p) - 1)}

\* ------------------------------------------------------------ state
Threads == 1..NumThreads
NoThread == 0

VARIABLES
  childDirs,    \* urp.childDirs
  parentDirs,   \* urp.parentDirs
  mu,           \* urp.mu: the thread holding it, or NoThread
  pc,           \* position of each thread
  arg,          \* the path a thread passed to callAdd
  path,         \* callAdd's local variable path
  err,          \* the error a call is about to return
  ret,          \* the int a count call is about to return
  todo,         \* elements the range loop of a dispatch has yet to visit
  cur,          \* the sp of the refresh invocation in progress
  calls,        \* bag of refresh invocations made by the current dispatch
  bubbleFailed, \* paths whose managedBubbleMetadata failed in this dispatch
  pre,          \* the two maps as they were when the call took the lock
  added,        \* paths passed to a completed callAdd
  failed,       \* whether some callAdd has returned an error
  nAdds         \* number of callAdd calls started

vars == <<childDirs, parentDirs, mu, pc, arg, path, err, ret, todo, cur,
          calls, bubbleFailed, pre, added, failed, nAdds>>

NoPre == [childDirs |-> {}, parentDirs |-> {}]

\* newUniqueRefreshPaths
Init ==
  /\ childDirs = {}
  /\ parentDirs = {}
  /\ mu = NoThread
  /\ pc = [t \in Threads |-> "idle"]
  /\ arg = [t \in Threads |-> Root]
  /\ path = [t \in Threads |-> Root]
  /\ err = [t \in Threads |-> Nil]
  /\ ret = [t \in Threads |-> 0]
  /\ todo = [t \in Threads |-> {}]
  /\ cur = [t \in Threads |-> Root]
  /\ calls = [t \in Threads |-> EmptyBag]
  /\ bubbleFailed = [t \in Threads |-> {}]
  /\ pre = [t \in Threads |-> NoPre]
  /\ added = {}
  /\ failed = FALSE
  /\ nAdds = 0

\* ------------------------------------------------------------ callAdd
\* A plausible slip: the check of lines 41-43 against parentDirs left out.
CheckAndInsert_NoParentCheck(cd, pd, p) ==
  IF p \in cd THEN [childDirs |-> cd, parentDirs |-> pd, done |-> TRUE]
  ELSE [childDirs |-> cd \cup {p}, parentDirs |-> pd, done |-> FALSE]

\* A plausible slip: the check of lines 46-48 against childDirs left out.
CheckAndInsert_NoChildCheck(cd, pd, p) ==
  IF p \in pd THEN [childDirs |-> cd, parentDirs |-> pd, done |-> TRUE]
  ELSE [childDirs |-> cd \cup {p}, parentDirs |-> pd, done |-> FALSE]

\* Lines 40-51: the two membership checks and the insertion into childDirs.
CheckAndInsert(cd, pd, p) ==
  IF p \in pd THEN [childDirs |-> cd, parentDirs |-> pd, done |-> TRUE]
  ELSE IF p \in cd THEN [childDirs |-> cd, parentDirs |-> pd, done |-> TRUE]
  ELSE [childDirs |-> cd \cup {p}, parentDirs |-> pd, done |-> FALSE]

\* A plausible slip: the loop stops one level early, at the children of root.
LoopDone_BelowRoot(p) == Len(p) <= 1

\* A plausible slip: the loop has no test, and runs until Dir fails.
LoopDone_Never(p) == FALSE

\* Line 55: the loop ends when path is the root.
LoopDone(p) == IsRoot(p)

\* A plausible slip: the delete of line 65 left out.
LoopIter_NoDelete(cd, pd, p) ==
  LET d == Dir(p) IN
  IF d.err
  THEN [childDirs |-> cd, parentDirs |-> pd, path |-> p,
        err |-> AddContext(p), done |-> TRUE]
  ELSE [childDirs |-> cd,
        parentDirs |-> pd \cup {d.parentDir},
        path |-> d.parentDir, err |-> Nil, done |-> FALSE]

\* A plausible slip: line 68 moved inside the if of line 63.
LoopIter_InsertOnlyIfChild(cd, pd, p) ==
  LET d == Dir(p) IN
  IF d.err
  THEN [childDirs |-> cd, parentDirs |-> pd, path |-> p,
        err |-> AddContext(p), done |-> TRUE]
  ELSE [childDirs |-> cd \ {d.parentDir},
        parentDirs |-> IF d.parentDir \in cd THEN pd \cup {d.parentDir}
                       ELSE pd,
        path |-> d.parentDir, err |-> Nil, done |-> FALSE]

\* A plausible slip: line 65 deletes path in place of parentDir.
LoopIter_DeleteSelf(cd, pd, p) ==
  LET d == Dir(p) IN
  IF d.err
  THEN [childDirs |-> cd, parentDirs |-> pd, path |-> p,
        err |-> AddContext(p), done |-> TRUE]
  ELSE [childDirs |-> cd \ {p},
        parentDirs |-> pd \cup {d.parentDir},
        path |-> d.parentDir, err |-> Nil, done |-> FALSE]

\* A plausible change: the error return of line 60 takes path out of
\* childDirs again.
LoopIter_Rollback(cd, pd, p) ==
  LET d == Dir(p) IN
  IF d.err
  THEN [childDirs |-> cd \ {p}, parentDirs |-> pd, path |-> p,
        err |-> AddContext(p), done |-> TRUE]
  ELSE [childDirs |-> cd \ {d.parentDir},
        parentDirs |-> pd \cup {d.parentDir},
        path |-> d.parentDir, err |-> Nil, done |-> FALSE]

\* A plausible slip: parentDir is used before err is looked at.
LoopIter_UseBeforeErrCheck(cd, pd, p) ==
  LET d == Dir(p) IN
  IF d.err
  THEN [childDirs |-> cd \ {d.parentDir},
        parentDirs |-> pd \cup {d.parentDir}, path |-> p,
        err |-> AddContext(p), done |-> TRUE]
  ELSE [childDirs |-> cd \ {d.parentDir},
        parentDirs |-> pd \cup {d.parentDir},
        path |-> d.parentDir, err |-> Nil, done |-> FALSE]

\* A plausible slip: line 68 inserts path in place of parentDir.
LoopIter_InsertSelf(cd, pd, p) ==
  LET d == Dir(p) IN
  IF d.err
  THEN [childDirs |-> cd, parentDirs |-> pd, path |-> p,
        err |-> AddContext(p), done |-> TRUE]
  ELSE [childDirs |-> cd \ {d.parentDir},
        parentDirs |-> pd \cup {p},
        path |-> d.parentDir, err |-> Nil, done |-> FALSE]

\* A plausible slip: only the immediate parent is handled, not the chain.
LoopIter_OneLevel(cd, pd, p) ==
  LET d == Dir(p) IN
  IF d.err
  THEN [childDirs |-> cd, parentDirs |-> pd, path |-> p,
        err |-> AddContext(p), done |-> TRUE]
  ELSE [childDirs |-> cd \ {d.parentDir},
        parentDirs |-> pd \cup {d.parentDir},
        path |-> d.parentDir, err |-> Nil, done |-> TRUE]

\* Lines 56-70: one iteration of the loop, entered with a non-root path.
LoopIter(cd, pd, p) ==
  LET d == Dir(p) IN
  IF d.err
  THEN [childDirs |-> cd, parentDirs |-> pd, path |-> p,
        err |-> AddContext(p), done |-> TRUE]
  ELSE [childDirs |-> cd \ {d.parentDir},
        parentDirs |-> pd \cup {d.parentDir},
        path |-> d.parentDir, err |-> Nil, done |-> FALSE]

\* Lines 55-72: the whole loop.
RECURSIVE Walk(_, _, _)
Walk(cd, pd, p) ==
  IF LoopDone(p) THEN [childDirs |-> cd, parentDirs |-> pd, err |-> Nil]
  ELSE LET s == LoopIter(cd, pd, p) IN
       IF s.done
       THEN [childDirs |-> s.childDirs, parentDirs |-> s.parentDirs,
             err |-> s.err]
       ELSE Walk(s.childDirs, s.parentDirs, s.path)

\* Lines 36-73: the effect of one whole call of callAdd.
callAdd(cd, pd, p) ==
  LET c == CheckAndInsert(cd, pd, p) IN
  IF c.done THEN [childDirs |-> cd, parentDirs |-> pd, err |-> Nil]
  ELSE Walk(c.childDirs, c.parentDirs, p)

\* A plausible slip: callAdd does not wait for the mutex to be free.
AddLock_NoWait(t, p) ==
  /\ pc[t] = "idle"
  /\ nAdds < MaxAdds
  /\ mu' = t
  /\ pc' = [pc EXCEPT ![t] = "add_check"]
  /\ arg' = [arg EXCEPT ![t] = p]
  /\ path' = [path EXCEPT ![t] = p]
  /\ pre' = [pre EXCEPT ![t] = [childDirs |-> childDirs,
                                parentDirs |-> parentDirs]]
  /\ nAdds' = nAdds + 1
  /\ UNCHANGED <<childDirs, parentDirs, err, ret, todo, cur, calls,
                 bubbleFailed, added, failed>>

\* Line 37: urp.mu.Lock()
AddLock(t, p) ==
  /\ pc[t] = "idle"
  /\ mu = NoThread
  /\ nAdds < MaxAdds
  /\ mu' = t
  /\ pc' = [pc EXCEPT ![t] = "add_check"]
  /\ arg' = [arg EXCEPT ![t] = p]
  /\ path' = [path EXCEPT ![t] = p]
  /\ pre' = [pre EXCEPT ![t] = [childDirs |-> childDirs,
                                parentDirs |-> parentDirs]]
  /\ nAdds' = nAdds + 1
  /\ UNCHANGED <<childDirs, parentDirs, err, ret, todo, cur, calls,
                 bubbleFailed, added, failed>>

\* Lines 40-51
AddCheck(t) ==
  /\ pc[t] = "add_check"
  /\ LET c == CheckAndInsert(childDirs, parentDirs, path[t]) IN
       /\ childDirs' = c.childDirs
       /\ parentDirs' = c.parentDirs
       /\ pc' = [pc EXCEPT ![t] = IF c.done THEN "add_unlock" ELSE "add_loop"]
  /\ err' = [err EXCEPT ![t] = Nil]
  /\ UNCHANGED <<mu, arg, path, ret, todo, cur, calls, bubbleFailed, pre, added, failed, nAdds>>

\* Lines 55-72: the loop test and, when it passes, one iteration.
AddLoop(t) ==
  /\ pc[t] = "add_loop"
  /\ IF LoopDone(path[t])
     THEN /\ pc' = [pc EXCEPT ![t] = "add_unlock"]
          /\ UNCHANGED <<childDirs, parentDirs, path, err, failed>>
     ELSE LET s == LoopIter(childDirs, parentDirs, path[t]) IN
          /\ childDirs' = s.childDirs
          /\ parentDirs' = s.parentDirs
          /\ path' = [path EXCEPT ![t] = s.path]
          /\ err' = [err EXCEPT ![t] = s.err]
          /\ failed' = (failed \/ s.err # Nil)
          /\ pc' = [pc EXCEPT ![t] = IF s.done THEN "add_unlock"
                                     ELSE "add_loop"]
  /\ UNCHANGED <<mu, arg, ret, todo, cur, calls, bubbleFailed, pre, added, nAdds>>

\* A plausible slip: Unlock is called before the returns of lines 42, 47 and
\* 72 and not before the error return of line 60.
AddUnlock_NotOnError(t) ==
  /\ pc[t] = "add_unlock"
  /\ mu' = IF err[t] = Nil THEN NoThread ELSE mu
  /\ pc' = [pc EXCEPT ![t] = "idle"]
  /\ added' = added \cup {arg[t]}
  /\ arg' = [arg EXCEPT ![t] = Root]
  /\ path' = [path EXCEPT ![t] = Root]
  /\ err' = [err EXCEPT ![t] = Nil]
  /\ pre' = [pre EXCEPT ![t] = NoPre]
  /\ UNCHANGED <<childDirs, parentDirs, ret, todo, cur, calls, bubbleFailed, failed, nAdds>>

\* Line 38: the deferred urp.mu.Unlock(), and the return.
AddUnlock(t) ==
  /\ pc[t] = "add_unlock"
  /\ mu' = NoThread
  /\ pc' = [pc EXCEPT ![t] = "idle"]
  /\ added' = added \cup {arg[t]}
  /\ arg' = [arg EXCEPT ![t] = Root]
  /\ path' = [path EXCEPT ![t] = Root]
  /\ err' = [err EXCEPT ![t] = Nil]
  /\ pre' = [pre EXCEPT ![t] = NoPre]
  /\ UNCHANGED <<childDirs, parentDirs, ret, todo, cur, calls, bubbleFailed, failed, nAdds>>

\* ------------------------------------------------------------ counts
\* Lines 77-81: callNumChildDirs up to its return statement.
NumChildDirsLock(t) ==
  /\ pc[t] = "idle"
  /\ mu = NoThread
  /\ mu' = t
  /\ pc' = [pc EXCEPT ![t] = "count_unlock"]
  /\ ret' = [ret EXCEPT ![t] = Cardinality(childDirs)]
  /\ UNCHANGED <<childDirs, parentDirs, arg, path, err, todo, cur, calls,
                 bubbleFailed, pre, added, failed, nAdds>>

\* Lines 85-89: callNumParentDirs up to its return statement.
NumParentDirsLock(t) ==
  /\ pc[t] = "idle"
  /\ mu = NoThread
  /\ mu' = t
  /\ pc' = [pc EXCEPT ![t] = "count_unlock"]
  /\ ret' = [ret EXCEPT ![t] = Cardinality(parentDirs)]
  /\ UNCHANGED <<childDirs, parentDirs, arg, path, err, todo, cur, calls,
                 bubbleFailed, pre, added, failed, nAdds>>

\* Lines 79 and 87: the deferred urp.mu.Unlock() of a count call.
CountUnlock(t) ==
  /\ pc[t] = "count_unlock"
  /\ mu' = NoThread
  /\ pc' = [pc EXCEPT ![t] = "idle"]
  /\ ret' = [ret EXCEPT ![t] = 0]
  /\ UNCHANGED <<childDirs, parentDirs, arg, path, err, todo, cur, calls,
                 bubbleFailed, pre, added, failed, nAdds>>

\* ------------------------------------------------------------ callRefreshAll
\* A plausible slip: the loop ranges over parentDirs.
RangeSet_Parents(cd, pd) == pd

\* What the range loops of lines 96 and 106 iterate over.
RangeSet(cd, pd) == cd

\* What is left to visit once the loop has visited sp.
Visited(s, sp) == s \ {sp}

\* Lines 94-96: urp.mu.Lock() and the start of the range loop.
RefreshAllLock(t) ==
  /\ pc[t] = "idle"
  /\ mu = NoThread
  /\ mu' = t
  /\ pc' = [pc EXCEPT ![t] = "ra_loop"]
  /\ todo' = [todo EXCEPT ![t] = RangeSet(childDirs, parentDirs)]
  /\ calls' = [calls EXCEPT ![t] = EmptyBag]
  /\ pre' = [pre EXCEPT ![t] = [childDirs |-> childDirs,
                                parentDirs |-> parentDirs]]
  /\ UNCHANGED <<childDirs, parentDirs, arg, path, err, ret, cur,
                 bubbleFailed, added, failed, nAdds>>

\* Lines 96-98: one iteration, go urp.r.callThreadedBubbleMetadata(sp); the
\* map is ranged over in an unspecified order.  The goroutine is recorded in
\* calls; it runs on its own and never touches the tracker.
RefreshAllLoop(t) ==
  /\ pc[t] = "ra_loop"
  /\ IF todo[t] = {}
     THEN /\ pc' = [pc EXCEPT ![t] = "ra_unlock"]
          /\ UNCHANGED <<todo, calls>>
     ELSE \E sp \in todo[t] :
          /\ todo' = [todo EXCEPT ![t] = Visited(todo[t], sp)]
          /\ calls' = [calls EXCEPT ![t] = calls[t] (+) SetToBag({sp})]
          /\ UNCHANGED pc
  /\ UNCHANGED <<childDirs, parentDirs, mu, arg, path, err, ret, cur,
                 bubbleFailed, pre, added, failed, nAdds>>

\* A plausible change: the dispatch empties the maps once it is done.
RefreshAllUnlock_Clear(t) ==
  /\ pc[t] = "ra_unlock"
  /\ mu' = NoThread
  /\ pc' = [pc EXCEPT ![t] = "idle"]
  /\ calls' = [calls EXCEPT ![t] = EmptyBag]
  /\ pre' = [pre EXCEPT ![t] = NoPre]
  /\ childDirs' = {}
  /\ parentDirs' = {}
  /\ UNCHANGED <<arg, path, err, ret, todo, cur, bubbleFailed, added, failed,
                 nAdds>>

\* Line 95: the deferred urp.mu.Unlock(), and the return.
RefreshAllUnlock(t) ==
  /\ pc[t] = "ra_unlock"
  /\ mu' = NoThread
  /\ pc' = [pc EXCEPT ![t] = "idle"]
  /\ calls' = [calls EXCEPT ![t] = EmptyBag]
  /\ pre' = [pre EXCEPT ![t] = NoPre]
  /\ UNCHANGED <<childDirs, parentDirs, arg, path, err, ret, todo, cur,
                 bubbleFailed, added, failed, nAdds>>

\* ------------------------------------------------------------ callRefreshAllBlocking
\* Lines 104-106: urp.mu.Lock() and the start of the range loop.
RefreshAllBlockingLock(t) ==
  /\ pc[t] = "idle"
  /\ mu = NoThread
  /\ mu' = t
  /\ pc' = [pc EXCEPT ![t] = "rab_loop"]
  /\ todo' = [todo EXCEPT ![t] = RangeSet(childDirs, parentDirs)]
  /\ calls' = [calls EXCEPT ![t] = EmptyBag]
  /\ bubbleFailed' = [bubbleFailed EXCEPT ![t] = {}]
  /\ err' = [err EXCEPT ![t] = Nil]
  /\ pre' = [pre EXCEPT ![t] = [childDirs |-> childDirs,
                                parentDirs |-> parentDirs]]
  /\ UNCHANGED <<childDirs, parentDirs, arg, path, ret, cur, added,
                 failed, nAdds>>

\* Lines 106-107: the loop test and the call of urp.r.managedBubbleMetadata(sp).
RefreshAllBlockingLoop(t) ==
  /\ pc[t] = "rab_loop"
  /\ IF todo[t] = {}
     THEN /\ pc' = [pc EXCEPT ![t] = "rab_unlock"]
          /\ UNCHANGED <<todo, calls, cur>>
     ELSE \E sp \in todo[t] :
          /\ todo' = [todo EXCEPT ![t] = Visited(todo[t], sp)]
          /\ calls' = [calls EXCEPT ![t] = calls[t] (+) SetToBag({sp})]
          /\ cur' = [cur EXCEPT ![t] = sp]
          /\ pc' = [pc EXCEPT ![t] = "rab_call"]
  /\ UNCHANGED <<childDirs, parentDirs, mu, arg, path, err, ret,
                 bubbleFailed, pre, added, failed, nAdds>>

\* Line 107: managedBubbleMetadata(sp) returns, with an error or without, and
\* err = errors.Compose(err, <its result>).
RefreshAllBlockingReturned(t, ok) ==
  /\ pc[t] = "rab_call"
  /\ err' = [err EXCEPT ![t] =
               Compose(err[t], IF ok THEN Nil ELSE BubbleErr(cur[t]))]
  /\ bubbleFailed' = [bubbleFailed EXCEPT ![t] =
               IF ok THEN bubbleFailed[t] ELSE bubbleFailed[t] \cup {cur[t]}]
  /\ cur' = [cur EXCEPT ![t] = Root]
  /\ pc' = [pc EXCEPT ![t] = "rab_loop"]
  /\ UNCHANGED <<childDirs, parentDirs, mu, arg, path, ret, todo, calls, pre, added, failed, nAdds>>

\* Lines 105 and 109: the deferred urp.mu.Unlock(), and the return of err.
RefreshAllBlockingUnlock(t) ==
  /\ pc[t] = "rab_unlock"
  /\ mu' = NoThread
  /\ pc' = [pc EXCEPT ![t] = "idle"]
  /\ calls' = [calls EXCEPT ![t] = EmptyBag]
  /\ bubbleFailed' = [bubbleFailed EXCEPT ![t] = {}]
  /\ err' = [err EXCEPT ![t] = Nil]
  /\ pre' = [pre EXCEPT ![t] = NoPre]
  /\ UNCHANGED <<childDirs, parentDirs, arg, path, ret, todo, cur,
                 added, failed, nAdds>>

\* ------------------------------------------------------------ specification
Next ==
  \E t \in Threads :
       \/ \E p \in Paths : AddLock(t, p)
       \/ AddCheck(t)
       \/ AddLoop(t)
       \/ AddUnlock(t)
       \/ NumChildDirsLock(t)
       \/ NumParentDirsLock(t)
       \/ CountUnlock(t)
       \/ RefreshAllLock(t)
       \/ RefreshAllLoop(t)
       \/ RefreshAllUnlock(t)
       \/ RefreshAllBlockingLock(t)
       \/ RefreshAllBlockingLoop(t)
       \/ \E ok \in BOOLEAN : RefreshAllBlockingReturned(t, ok)
       \/ RefreshAllBlockingUnlock(t)

Spec == Init /\ [][Next]_vars

\* The steps of thread t once it holds the mutex: a thread that is inside a
\* call keeps running, and a refresh call it has made returns.
Running(t) ==
  \/ AddCheck(t)
  \/ AddLoop(t)
  \/ AddUnlock(t)
  \/ CountUnlock(t)
  \/ RefreshAllLoop(t)
  \/ RefreshAllUnlock(t)
  \/ RefreshAllBlockingLoop(t)
  \/ \E ok \in BOOLEAN : RefreshAllBlockingReturned(t, ok)
  \/ RefreshAllBlockingUnlock(t)

\* The same program with threads that are scheduled fairly.
FairSpec == Spec /\ \A t \in Threads : WF_vars(Running(t))

\* ------------------------------------------------------------ properties
\* A thread is inside the body of callAdd, between Lock and the return.
AddRunning(t) == pc[t] \in {"add_check", "add_loop"}

\* No callAdd is part-way through its body.
Quiescent == \A t \in Threads : ~AddRunning(t)

\* The paths of the callAdd calls whose body has run to its return.
Completed == added \cup {arg[t] : t \in {u \in Threads : pc[u] = "add_unlock"}}

\* No two distinct elements of s are ancestor and descendant.
Antichain(s) == \A a \in s : \A d \in s : ~IsProperAncestor(a, d)

\* The elements of s without a proper descendant in s.
MinimalCover(s) == {p \in s : \A q \in s : ~IsProperAncestor(p, q)}

\* The proper ancestors of the elements of s.
AncestorsOf(s) == UNION {ProperAncestors(p) : p \in s}

\* C1: in every reachable state, also between two iterations of a running
\* callAdd and whatever the other threads are doing, no path is in both
\* childDirs and parentDirs.
C1_Disjoint == childDirs \cap parentDirs = {}

\* C1 witness: a callAdd has moved a path that was in childDirs to parentDirs.
C1_Witness ==
  \E t \in Threads :
    /\ pc[t] = "add_unlock"
    /\ \E p \in pre[t].childDirs : p \in parentDirs /\ p \notin childDirs

C3_Exact ==
  ((\A t \in Threads : pc[t] \notin {"add_check", "add_loop", "add_unlock"})
     /\ ~failed)
  => /\ childDirs = MinimalCover(added)
     /\ parentDirs = AncestorsOf(added)

\* C3 witness: a path and one of its proper descendants have both been added,
\* and some path has been added more than once.
C3_Witness ==
  /\ \A t \in Threads : pc[t] = "idle"
  /\ ~failed
  /\ \E p \in added : \E q \in added : IsProperAncestor(p, q)
  /\ nAdds > Cardinality(added)

\* Parent resolution succeeds for p and for each of its non-root ancestors.
ChainResolves(p) ==
  \A q \in (ProperAncestors(p) \cup {p}) \ {Root} : ~Dir(q).err

C5_Original ==
  \A p \in Completed :
    p \in childDirs \/ \E a \in childDirs : IsProperAncestor(a, p)

\* C5 amended: once callAdd(P) has completed, P or a descendant of P is in
\* childDirs.
C5_Coverage ==
  \A p \in Completed :
    p \in childDirs \/ \E d \in childDirs : IsProperAncestor(p, d)

\* C5 witness: an added path is covered by a descendant and not by itself.
C5_Witness ==
  \E p \in Completed :
    /\ p \notin childDirs
    /\ \E d \in childDirs : IsProperAncestor(p, d)


\* C6: when a callAdd(P) has run to its return, from whatever state it
\* started and whether it failed or not, a second callAdd(P) leaves childDirs
\* and parentDirs as they are and returns nil.
C6_Idempotent ==
  \A t \in Threads :
    pc[t] = "add_unlock" =>
      LET r == callAdd(childDirs, parentDirs, arg[t]) IN
        /\ r.childDirs = childDirs
        /\ r.parentDirs = parentDirs
        /\ r.err = Nil

\* C6 witness: a callAdd that changed the sets and then failed has run to its
\* return, on a tracker that already had parent directories.
C6_Witness ==
  \E t \in Threads :
    /\ pc[t] = "add_unlock"
    /\ err[t] # Nil
    /\ pre[t].childDirs # childDirs
    /\ pre[t].parentDirs # {}

C8_DispatchOnce ==
  \A t \in Threads :
    pc[t] = "ra_unlock" =>
      /\ calls[t] = SetToBag(childDirs)
      /\ BagCardinality(calls[t]) = Cardinality(childDirs)
      /\ childDirs = pre[t].childDirs

\* C8 witness: a callRefreshAll over two child directories has ended, with
\* parent directories present that it did not dispatch.
C8_Witness ==
  \E t \in Threads :
    /\ pc[t] = "ra_unlock"
    /\ Cardinality(childDirs) >= 2
    /\ parentDirs # {}

\* C9: when the loop of callRefreshAllBlocking has ended, managedBubbleMetadata
\* has been called once for each element of childDirs whether or not earlier
\* calls failed, no call is still running, the error returned is nil exactly
\* when no call failed, and it holds the error of every call that failed.
C9_Aggregate ==
  \A t \in Threads :
    pc[t] = "rab_unlock" =>
      /\ calls[t] = SetToBag(childDirs)
      /\ todo[t] = {}
      /\ (err[t] = Nil <=> bubbleFailed[t] = {})
      /\ err[t] = UNION {BubbleErr(sp) : sp \in bubbleFailed[t]}

\* C9 witness: of two refreshes one failed and one succeeded.
C9_Witness ==
  \E t \in Threads :
    /\ pc[t] = "rab_unlock"
    /\ Cardinality(childDirs) >= 2
    /\ Cardinality(bubbleFailed[t]) = 1

\* C10 as stated: callRefreshAllBlocking does not hold the lock while a
\* managedBubbleMetadata call is executing, so that another thread can take
\* the lock in the meantime.
C10_Original ==
  \A t \in Threads :
    pc[t] = "rab_call" =>
      /\ mu # t
      /\ \E u \in Threads \ {t} : ENABLED NumChildDirsLock(u)


\* C11: a thread inside any call holds the mutex and every other thread is
\* outside; a count call returns the size of a map as it is between whole
\* calls; and a callAdd that has run to its return has taken the maps from
\* what they were when it took the lock to what one uninterrupted callAdd of
\* its path makes of them, so that the calls take effect one after the other
\* in the order of their locks.
C11_Atomic ==
  \A t \in Threads :
    /\ pc[t] # "idle" =>
         /\ mu = t
         /\ \A u \in Threads \ {t} : pc[u] = "idle"
    /\ pc[t] = "count_unlock" =>
         ret[t] \in {Cardinality(childDirs), Cardinality(parentDirs)}
    /\ pc[t] = "add_unlock" =>
         LET r == callAdd(pre[t].childDirs, pre[t].parentDirs, arg[t]) IN
           /\ childDirs = r.childDirs
           /\ parentDirs = r.parentDirs
           /\ err[t] = r.err

\* C11 witness: a callAdd whose walk took two iterations and moved a tracked
\* child directory has run to its return.
C11_Witness ==
  \E t \in Threads :
    /\ pc[t] = "add_unlock"
    /\ Len(arg[t]) >= 2
    /\ err[t] = Nil
    /\ pre[t].childDirs \ childDirs # {}

\* The ancestors of the path passed to the callAdd of thread t that the walk
\* has handled: those from its parent up to the current value of path.
Processed(t) ==
  {a \in ProperAncestors(arg[t]) : Len(a) >= Len(path[t])}

\* C12 as stated: when callAdd returns an error, the maps differ from what
\* they were before the call only by what was done for the ancestors handled
\* before the failure.
C12_Original ==
  \A t \in Threads :
    (pc[t] = "add_unlock" /\ err[t] # Nil) =>
      /\ childDirs = pre[t].childDirs \ Processed(t)
      /\ parentDirs = pre[t].parentDirs \cup Processed(t)

\* C12 amended: when callAdd(P) returns an error, the error names the path
\* whose parent could not be resolved, and the maps differ from what they were
\* before the call by the insertion of P into childDirs and by what was done
\* for the ancestors handled before the failure, each taken out of childDirs
\* and put into parentDirs.
C12_Abort ==
  \A t \in Threads :
    (pc[t] = "add_unlock" /\ err[t] # Nil) =>
      /\ err[t] = AddContext(path[t])
      /\ Dir(path[t]).err
      /\ childDirs = (pre[t].childDirs \cup {arg[t]}) \ Processed(t)
      /\ parentDirs = pre[t].parentDirs \cup Processed(t)

\* C12 witness: a callAdd has failed after handling an ancestor, with
\* ancestors left that it did not handle.
C12_Witness ==
  \E t \in Threads :
    /\ pc[t] = "add_unlock"
    /\ err[t] # Nil
    /\ Processed(t) # {}
    /\ ProperAncestors(arg[t]) \ Processed(t) # {}

\* C13: only a step of the body of callAdd changes childDirs or parentDirs;
\* the steps of callRefreshAll, callRefreshAllBlocking, callNumChildDirs and
\* callNumParentDirs leave both as they are.
C13_Frame ==
  [][(\E t \in Threads : AddRunning(t))
       \/ UNCHANGED <<childDirs, parentDirs>>]_vars

\* C13 witness: a dispatch over a tracker with child and parent directories
\* has run to its return with both maps as it found them.
C13_Witness ==
  \E t \in Threads :
    /\ pc[t] \in {"ra_unlock", "rab_unlock"}
    /\ childDirs # {}
    /\ parentDirs # {}
    /\ pre[t].childDirs = childDirs
    /\ pre[t].parentDirs = parentDirs


\* C14: callAdd(root) on a tracker whose maps are empty returns nil and
\* leaves childDirs = {root} and parentDirs empty.
C14_AddRoot ==
  \A t \in Threads :
    (pc[t] = "add_unlock" /\ arg[t] = Root /\ pre[t] = NoPre) =>
      /\ err[t] = Nil
      /\ childDirs = {Root}
      /\ parentDirs = {}
      /\ path[t] = Root

\* C14 witness: the first callAdd on a tracker is for the root and has run
\* to its return.
C14_Witness ==
  \E t \in Threads :
    /\ pc[t] = "add_unlock"
    /\ arg[t] = Root
    /\ pre[t] = NoPre
    /\ added = {}
    /\ nAdds = 1

\* C15 as stated: the root is never in childDirs, and once a non-root path
\* has been added without any failure the root is in parentDirs.
C15_Original ==
  /\ Root \notin childDirs
  /\ (~failed /\ \E p \in Completed : p # Root) => Root \in parentDirs

\* C15 amended: the root is in childDirs only when it was itself passed to
\* callAdd, and once a non-root path whose parent and whose ancestors'
\* parents can all be resolved has been added, the root is in parentDirs and
\* is not in childDirs.
C15_Root ==
  /\ Root \in childDirs =>
       \/ Root \in added
       \/ \E t \in Threads : pc[t] \in {"add_loop", "add_unlock"}
                             /\ arg[t] = Root
  /\ (\E p \in Completed : p # Root /\ ChainResolves(p)) =>
       /\ Root \in parentDirs
       /\ Root \notin childDirs

\* C15 witness: the root was tracked as a child directory and a non-root
\* path added afterwards has moved it to parentDirs.
C15_Witness ==
  \E t \in Threads :
    /\ pc[t] = "add_unlock"
    /\ arg[t] # Root
    /\ ChainResolves(arg[t])
    /\ Root \in pre[t].childDirs
    /\ Root \in parentDirs

\* C16: a callAdd(P) that returns nil inserts no path but P into childDirs,
\* takes none but proper ancestors of P out of childDirs, inserts none but
\* proper ancestors of P into parentDirs and takes nothing out of parentDirs;
\* so every other path keeps its place in both maps.
C16_OwnChain ==
  \A t \in Threads :
    (pc[t] = "add_unlock" /\ err[t] = Nil) =>
      /\ childDirs \ pre[t].childDirs \subseteq {arg[t]}
      /\ pre[t].childDirs \ childDirs \subseteq ProperAncestors(arg[t])
      /\ parentDirs \ pre[t].parentDirs \subseteq ProperAncestors(arg[t])
      /\ pre[t].parentDirs \subseteq parentDirs

\* C16 witness: a sibling of a tracked child directory has been added, and
\* both are in childDirs.
C16_Witness ==
  \E t \in Threads :
    /\ pc[t] = "add_unlock"
    /\ err[t] = Nil
    /\ arg[t] \in childDirs \ pre[t].childDirs
    /\ \E s \in pre[t].childDirs :
         /\ s # arg[t]
         /\ Len(s) = Len(arg[t])
         /\ ProperAncestors(s) = ProperAncestors(arg[t])
         /\ s \in childDirs

\* C17: in every step parentDirs keeps its elements, a path that leaves
\* childDirs is in parentDirs after the step, no element of parentDirs enters
\* childDirs, and the union of the two maps keeps its elements.
C17_Monotone ==
  [][/\ parentDirs \subseteq parentDirs'
     /\ (childDirs \ childDirs') \subseteq parentDirs'
     /\ parentDirs \cap childDirs' = {}
     /\ (childDirs \cup parentDirs) \subseteq (childDirs' \cup parentDirs')
    ]_vars

\* C17 witness: an iteration of the walk has just moved a tracked child
\* directory to parentDirs.
C17_Witness ==
  \E t \in Threads :
    /\ pc[t] = "add_loop"
    /\ path[t] \in pre[t].childDirs
    /\ path[t] \in parentDirs
    /\ path[t] \notin childDirs


\* C18: the walk of callAdd stays on the ancestor chain of the path passed,
\* one level higher after each iteration, so that it makes at most depth(P)
\* iterations; and with fair scheduling, whenever the mutex is held or a
\* thread is inside a call, a state follows in which every thread has returned
\* and the mutex is free for the calls that wait for it.
C18_Returns ==
  /\ [](\A t \in Threads :
          pc[t] = "add_loop" =>
            path[t] \in ProperAncestors(arg[t]) \cup {arg[t]})
  /\ [][\A t \in Threads :
          (pc[t] = "add_loop" /\ pc'[t] = "add_loop") =>
            Len(path'[t]) = Len(path[t]) - 1]_vars
  /\ (mu # NoThread \/ \E t \in Threads : pc[t] # "idle")
       ~> (mu = NoThread /\ \A t \in Threads : pc[t] = "idle")

\* C18 witness: a callAdd that returns an error is about to release the
\* mutex.
C18_Witness ==
  \E t \in Threads :
    /\ pc[t] = "add_unlock"
    /\ err[t] # Nil
    /\ mu = t
    /\ Len(arg[t]) = MaxDepth

\* C19: when callAdd(P) is about to return an error, P is in childDirs and
\* not in parentDirs, and a further callAdd(P) returns nil at the check of
\* lines 46-48 and leaves both maps as they are, the ancestors that the failed
\* walk did not handle included.
C19_Retry ==
  \A t \in Threads :
    (pc[t] = "add_unlock" /\ err[t] # Nil) =>
      /\ arg[t] \in childDirs
      /\ arg[t] \notin parentDirs
      /\ CheckAndInsert(childDirs, parentDirs, arg[t]).done
      /\ LET r == callAdd(childDirs, parentDirs, arg[t]) IN
           /\ r.err = Nil
           /\ r.childDirs = childDirs
           /\ r.parentDirs = parentDirs
           /\ \A a \in ProperAncestors(arg[t]) \ Processed(t) :
                /\ a \in r.parentDirs <=> a \in pre[t].parentDirs
                /\ a \in r.childDirs <=> a \in pre[t].childDirs

\* C19 witness: a callAdd has failed and left an ancestor of its path in
\* childDirs and out of parentDirs, where a retry leaves it.
C19_Witness ==
  \E t \in Threads :
    /\ pc[t] = "add_unlock"
    /\ err[t] # Nil
    /\ \E a \in ProperAncestors(arg[t]) :
         a \in childDirs /\ a \notin parentDirs


====
